---- MODULE Spec2Model ----
(***************************************************************************)
(* A model of SupportingFunctions.py: the centred Fourier operators, the   *)
(* encode/decode pair, nmse, the KneeDataset object with its fixed and     *)
(* per-item randomized sampling masks, and the train/validation split.     *)
(*                                                                         *)
(* Tensors are functions from 0-based indices.  A mask tensor is a         *)
(* function row -> (column -> value).  Tensors that the code updates in    *)
(* place live in `heap` and are held by reference, so that aliasing        *)
(* between an attribute and a returned value is visible.                   *)
(***************************************************************************)
EXTENDS Integers, Sequences, FiniteSets

VARIABLES
    \* ---- the KneeDataset object (self.*) ----
    kspace,        \* self.kspace: [shape |-> <<n, Nx, Ny>>, slice |-> contents]
    sens_map,      \* self.sens_map, one entry per slice
    n_slices,      \* self.n_slices
    num_ACS,       \* self.num_ACS
    R,             \* self.R
    mask,          \* self.mask: reference into heap
    x0,            \* self.x0, one entry per slice
    xref,          \* self.xref, one entry per slice
    gauss_kernel,  \* self.gauss_kernel (None before the first access)
    random,        \* self.random       (None before the first access)
    rand_mask,     \* self.rand_mask: reference into heap (None before)
    heap,          \* the mask tensors that exist, by reference
    \* ---- the caller of __getitem__ ----
    index,         \* argument of the latest __getitem__ call
    ret,           \* what the latest call returned or raised
    batch,         \* the masks returned so far, in order (references)
    calls,         \* number of __getitem__ calls made
    \* ---- one use of the Fourier / encode / decode operators ----
    x,             \* the image, [1 Nx Ny] (the batch axis of length 1 is implicit)
    S,             \* the sensitivity map, [1 Nx Ny Nc]
    m,             \* the sampling mask passed to encode, or None
    y,             \* k-space: the result of fft2 or of encode
    back,          \* the result of ifft2 on y
    xr,            \* the result of decode on y
    pc,            \* which operators have been applied
    \* ---- one call of nmse ----
    nm_x,          \* argument x
    nm_xref,       \* argument xref
    nm_out,        \* the value returned, None before the call
    \* ---- one call of prepare_train_loaders ----
    params,        \* argument params
    loaders,       \* first component of the result
    datasets       \* second component of the result

dsvars == <<kspace, sens_map, n_slices, num_ACS, R, mask, x0, xref,
            gauss_kernel, random, rand_mask, heap, index, ret, batch, calls>>

opvars == <<x, S, m, y, back, xr, pc>>

nmvars == <<nm_x, nm_xref, nm_out>>

plvars == <<params, loaders, datasets>>

vars == <<dsvars, opvars, nmvars, plvars>>

\* Python's None, for attributes and results that hold a tensor or nothing
None == << >>

\* No call of __getitem__ made yet
NoResult == [kind |-> "None"]

\* The value v itself: a tensor that the code computes once and stores.
\* Comparing a function with itself evaluates every entry, so later reads
\* find the stored entries instead of computing them again.
Tabulated(v) == IF v = v THEN v ELSE v

Min(a, b) == IF a < b THEN a ELSE b
Max(a, b) == IF a > b THEN a ELSE b

-----------------------------------------------------------------------------
(* Bounds of the model *)

MaxCalls  == 2      \* __getitem__ calls per run
MaxSlices == 2      \* slices loaded from the file: 0..MaxSlices
MaxR      == 4      \* acceleration factors 1..MaxR
MaxAxis   == 3      \* image axes of length 1..MaxAxis in the Fourier runs
MaxCoils  == 2      \* coils 1..MaxCoils in the Fourier runs
MaxLen    == 3      \* arrays of 1..MaxLen entries passed to nmse
MaxTotal  == 6      \* datasets of 0..MaxTotal slices passed to the split
MaxBatch  == 2      \* params['batch_size'] in 1..MaxBatch

-----------------------------------------------------------------------------
(* Python / torch indexing *)

\* A basic slice start:stop:step (step > 0) resolved against an axis of
\* length n: a negative bound counts from the end, then both are clipped.
SliceBound(i, n) == IF i < 0 THEN Max(i + n, 0) ELSE Min(i, n)

PySlice(start, stop, step) == [start |-> start, stop |-> stop, step |-> step]

InSlice(c, s, n) ==
    LET lo == SliceBound(s.start, n)
        hi == SliceBound(s.stop, n)
    IN  /\ lo <= c
        /\ c < hi
        /\ (c - lo) % s.step = 0

\* t[rows, cols] = v, in place, for a 2-D tensor of shape <<nx, ny>>
SetItem(t, rows, cols, v, nx, ny) ==
    LET rsel == Tabulated([r \in 0..(nx - 1) |-> InSlice(r, rows, nx)])
        csel == Tabulated([c \in 0..(ny - 1) |-> InSlice(c, cols, ny)])
    IN  [r \in 0..(nx - 1) |->
            IF rsel[r]
            THEN [c \in 0..(ny - 1) |-> IF csel[c] THEN v ELSE t[r][c]]
            ELSE t[r]]

\* Variant of IndexOk: an index check that does not count from the end
IndexOkNonNeg(i, n) == 0 <= i /\ i < n

\* t[i] for an integer i on the leading axis of length n
IndexOk(i, n) == -n <= i /\ i < n
IndexPos(i, n) == IF i < 0 THEN i + n ELSE i

\* the slice ":" over an axis of length n
All(n) == PySlice(0, n, 1)

-----------------------------------------------------------------------------
(* Complex arithmetic.                                                     *)
(*                                                                         *)
(* Complex numbers are computed exactly, in the field GF(P^2) =            *)
(* F_P[i] with i*i = -1, P a prime with P % 4 = 3.  An element a + b*i is  *)
(* the pair <<a, b>>.  Conjugation is a + b*i |-> a - b*i; the elements of *)
(* modulus 1 form a cyclic group of order P + 1, so for every axis length  *)
(* n dividing P + 1 there is a primitive n-th root of unity w with         *)
(* conj(w) = 1/w, and every n has a square root.  Every identity between   *)
(* sums and products of roots of unity, 1/sqrt(n) and the entries of the   *)
(* input that holds over the complex numbers holds here, so an inequality  *)
(* found here is an inequality of the complex results.                     *)

IsPrime(p) == p > 1 /\ \A d \in 2..(p - 1) : p % d # 0

\* The least prime that offers a root of unity for every axis length used
P == CHOOSE p \in 3..1000 :
        /\ IsPrime(p)
        /\ p % 4 = 3
        /\ \A n \in 1..MaxAxis : (p + 1) % n = 0

Complex == (0..(P - 1)) \X (0..(P - 1))

Re(a)      == <<a % P, 0>>
Zero       == <<0, 0>>
One        == <<1, 0>>
I          == <<0, 1>>
CAdd(u, v) == <<(u[1] + v[1]) % P, (u[2] + v[2]) % P>>
CMul(u, v) == <<(u[1] * v[1] - u[2] * v[2]) % P, (u[1] * v[2] + u[2] * v[1]) % P>>
Conj(u)    == <<u[1], (P - u[2]) % P>>
AbsSq(u)   == CMul(u, Conj(u))

RECURSIVE CPow(_, _)
CPow(u, k) == IF k = 0 THEN One ELSE CMul(u, CPow(u, k - 1))

\* exp(2*pi*i / (P+1)): a generator of the elements of modulus 1
Unit == CHOOSE g \in Complex :
            /\ AbsSq(g) = One
            /\ \A k \in 1..P : CPow(g, k) # One

\* exp(2*pi*i / n)
Root(n) == CPow(Unit, (P + 1) \div n)

\* 1/sqrt(n), the factor of norm='ortho'
OrthoScale(n) == CHOOSE u \in Complex : CMul(CMul(u, u), Re(n)) = One

\* sum of f[0], ..., f[n-1]
RECURSIVE CSum(_, _)
CSum(f, n) == IF n = 0 THEN Zero ELSE CAdd(CSum(f, n - 1), f[n - 1])

-----------------------------------------------------------------------------
(* Tensors of the Fourier operators: a coil tensor t of shape              *)
(* [1 Nx Ny Nc] is t[r][c][k]; an image of shape [1 Nx Ny] is t[r][c].     *)

Rows(t)  == Cardinality(DOMAIN t)
Cols(t)  == Cardinality(DOMAIN t[0])
Coils(t) == Cardinality(DOMAIN t[0][0])

Tensor(nx, ny, nc, E(_, _, _)) ==
    [r \in 0..(nx - 1) |-> [c \in 0..(ny - 1) |-> [k \in 0..(nc - 1) |-> E(r, c, k)]]]

\* torch.fft.fftshift(t, dim=[1,2]): each axis rolled forward by n // 2
fftshift(t) ==
    LET nx == Rows(t)
        ny == Cols(t)
        E(r, c, k) == t[(r - nx \div 2) % nx][(c - ny \div 2) % ny][k]
    IN  Tensor(nx, ny, Coils(t), E)

\* torch.fft.ifftshift(t, dim=[1,2]): each axis rolled back by n // 2
ifftshift(t) ==
    LET nx == Rows(t)
        ny == Cols(t)
        E(r, c, k) == t[(r + nx \div 2) % nx][(c + ny \div 2) % ny][k]
    IN  Tensor(nx, ny, Coils(t), E)

\* The 2-D DFT over axes 1 and 2 with kernel w^(u*r) along each axis and
\* the orthonormal factor 1/sqrt(Nx*Ny)
Dft2(t, wx, wy) ==
    LET nx == Rows(t)
        ny == Cols(t)
        sc == CMul(OrthoScale(nx), OrthoScale(ny))
        E(u, v, k) ==
            CMul(sc,
                 CSum([r \in 0..(nx - 1) |->
                        CMul(CPow(wx, (u * r) % nx),
                             CSum([c \in 0..(ny - 1) |->
                                    CMul(CPow(wy, (v * c) % ny), t[r][c][k])],
                                  ny))],
                      nx))
    IN  Tensor(nx, ny, Coils(t), E)

\* torch.fft.fftn(t, dim=[1,2], norm='ortho'): kernel exp(-2*pi*i*u*r/n)
fftn(t)  == Dft2(t, Conj(Root(Rows(t))), Conj(Root(Cols(t))))

\* torch.fft.ifftn(t, dim=[1,2], norm='ortho'): kernel exp(+2*pi*i*u*r/n)
ifftn(t) == Dft2(t, Root(Rows(t)), Root(Cols(t)))

fft2(image)   == fftshift(fftn(ifftshift(image)))

ifft2(kdata)  == ifftshift(ifftn(fftshift(kdata)))

\* S * x[:,:,:,None]
CoilImages(img, sens) ==
    LET E(r, c, k) == CMul(sens[r][c][k], img[r][c])
    IN  Tensor(Rows(sens), Cols(sens), Coils(sens), E)

\* t * mask[None,:,:,None]
ApplyMask(t, msk) ==
    LET E(r, c, k) == CMul(t[r][c][k], Re(msk[r][c]))
    IN  Tensor(Rows(t), Cols(t), Coils(t), E)

encode(img, sens, msk) ==
    IF msk = None
    THEN fft2(CoilImages(img, sens))
    ELSE ApplyMask(fft2(CoilImages(img, sens)), msk)

\* torch.sum(ifft2(x) * torch.conj(S), axis=3)
decode(kdata, sens) ==
    LET im == ifft2(kdata)
    IN  [r \in 0..(Rows(im) - 1) |-> [c \in 0..(Cols(im) - 1) |->
            CSum([k \in 0..(Coils(im) - 1) |->
                    CMul(im[r][c][k], Conj(sens[r][c][k]))], Coils(im))]]

-----------------------------------------------------------------------------
(* Fixed-point arithmetic for gauss_gen: coordinates and exponents are in  *)
(* thousandths, exp(-t) is tabulated in units of 10^-5 from its Taylor     *)
(* series, kernel values are in thousandths of the maximum.                *)

Milli == 1000

ExpUnit == 100000

RECURSIVE ExpSeries(_, _, _, _)
ExpSeries(t, k, term, acc) ==
    IF term = 0 \/ k > 24
    THEN acc
    ELSE LET next == (term * t) \div (k * Milli)
         IN  ExpSeries(t, k + 1, next,
                       IF k % 2 = 1 THEN acc - next ELSE acc + next)

\* exp(-t/1000), in units of 10^-5, for 0 <= t <= 2000
ExpNeg(t) == ExpSeries(t, 1, ExpUnit, ExpUnit)

ExpTable == [t \in 0..(2 * Milli) |-> ExpNeg(t)]

\* torch.linspace(-1, 1, steps=n)[i], in thousandths
Linspace(i, n) ==
    IF n = 1 THEN -Milli
    ELSE IF 2 * i < n
         THEN -Milli + (2 * Milli * i) \div (n - 1)
         ELSE Milli - (2 * Milli * (n - 1 - i)) \div (n - 1)

\* the largest of f[lo], ..., f[hi-1], by halving (lo < hi)
RECURSIVE MaxOver(_, _, _)
MaxOver(f, lo, hi) ==
    IF hi - lo = 1 THEN f[lo]
    ELSE LET mid == (lo + hi) \div 2
             a   == MaxOver(f, lo, mid)
             b   == MaxOver(f, mid, hi)
         IN  IF a > b THEN a ELSE b

\* torch.max over a 2-D tensor
TensorMax(t, nx, ny) ==
    LET rowmax == [r \in 0..(nx - 1) |-> MaxOver(t[r], 0, ny)]
    IN  MaxOver(rowmax, 0, nx)

\* gauss_gen(Nx, Ny, sigma), sigma in thousandths
gauss_gen(nx, ny, sigma) ==
    LET xs == Tabulated([r \in 0..(nx - 1) |-> Linspace(r, nx)])
        ys == Tabulated([c \in 0..(ny - 1) |-> Linspace(c, ny)])
        z  == Tabulated([r \in 0..(nx - 1) |-> [c \in 0..(ny - 1) |->
                 ExpTable[(xs[r] * xs[r] + ys[c] * ys[c]) \div (2 * sigma)]]])
        zmax == TensorMax(z, nx, ny)
    IN  Tabulated([r \in 0..(nx - 1) |-> [c \in 0..(ny - 1) |->
            (z[r][c] * Milli) \div zmax]])

-----------------------------------------------------------------------------
(* KneeDataset *)

EdgeCols    == 18     \* mask[:, 0:18] and mask[:, -18:Ny]
BlockRowLo  == 158    \* rand_mask[158:162, 182:186]
BlockRowHi  == 162
BlockColLo  == 182
BlockColHi  == 186
Threshold   == 6      \* (random * gauss_kernel) > 0.6, in tenths
SigmaMilli  == 500    \* gauss_gen(..., sigma=0.5), in thousandths
RandLevels  == 10     \* torch.rand is drawn in [0, 1): tenths 0..9

\* The four column writes shared by __init__ (on self.mask) and
\* __getitem__ (on self.rand_mask): stride R, first and last 18 columns,
\* and the band (Ny-num_ACS)//2 : (Ny+num_ACS)//2.
StrideSlice(ny, r)    == PySlice(0, ny, r)
FirstSlice            == PySlice(0, EdgeCols, 1)
LastSlice(ny)         == PySlice(-EdgeCols, ny, 1)
BandSlice(ny, nacs)   == PySlice((ny - nacs) \div 2, (ny + nacs) \div 2, 1)

\* self.mask as built by __init__: zeros, then the four writes of 1.0
InitMask(nx, ny, r, nacs) ==
    LET m0 == [i \in 0..(nx - 1) |-> [c \in 0..(ny - 1) |-> 0]]
        m1 == SetItem(m0, All(nx), StrideSlice(ny, r), 1, nx, ny)
        m2 == SetItem(m1, All(nx), FirstSlice, 1, nx, ny)
        m3 == SetItem(m2, All(nx), LastSlice(ny), 1, nx, ny)
        m4 == SetItem(m3, All(nx), BandSlice(ny, nacs), 1, nx, ny)
    IN  m4

\* The states of the random source that torch.rand may be called in
Seeds == { 0, 1 }

\* torch.rand((Nx, Ny)) for one state of the random source
Rand(seed, nx, ny) ==
    [r \in 0..(nx - 1) |-> [c \in 0..(ny - 1) |->
        (7 * r + 3 * c + seed) % RandLevels]]

\* (self.random * self.gauss_kernel) > 0.6 : a new boolean tensor, whose
\* entries True and False are written 1 and 0 (True == 1 in Python)
ThresholdField(rnd, gk, nx, ny) ==
    [r \in 0..(nx - 1) |-> [c \in 0..(ny - 1) |->
        IF rnd[r][c] * gk[r][c] > Threshold * Milli THEN 1 ELSE 0]]

\* Variant of RandMaskWrites: the stride write of line 74 left out
RandMaskWritesNoStride(t, nx, ny, r, nacs) ==
    LET m0 == SetItem(t, PySlice(BlockRowLo, BlockRowHi, 1),
                         PySlice(BlockColLo, BlockColHi, 1), 0, nx, ny)
        m2 == SetItem(m0, All(nx), FirstSlice, 1, nx, ny)
        m3 == SetItem(m2, All(nx), LastSlice(ny), 1, nx, ny)
        m4 == SetItem(m3, All(nx), BandSlice(ny, nacs), 1, nx, ny)
    IN  m4

\* Variant of RandMaskWrites: the block write of line 73 left out
RandMaskWritesNoBlock(t, nx, ny, r, nacs) ==
    LET m1 == SetItem(t, All(nx), StrideSlice(ny, r), 1, nx, ny)
        m2 == SetItem(m1, All(nx), FirstSlice, 1, nx, ny)
        m3 == SetItem(m2, All(nx), LastSlice(ny), 1, nx, ny)
        m4 == SetItem(m3, All(nx), BandSlice(ny, nacs), 1, nx, ny)
    IN  m4

\* The in-place writes of __getitem__ on the freshly thresholded tensor
RandMaskWrites(t, nx, ny, r, nacs) ==
    LET m0 == SetItem(t, PySlice(BlockRowLo, BlockRowHi, 1),
                         PySlice(BlockColLo, BlockColHi, 1), 0, nx, ny)
        m1 == SetItem(m0, All(nx), StrideSlice(ny, r), 1, nx, ny)
        m2 == SetItem(m1, All(nx), FirstSlice, 1, nx, ny)
        m3 == SetItem(m2, All(nx), LastSlice(ny), 1, nx, ny)
        m4 == SetItem(m3, All(nx), BandSlice(ny, nacs), 1, nx, ny)
    IN  m4

\* The input files and constructor arguments the model draws from: small
\* k-space geometries with every R and several band widths, and the
\* smallest geometry that holds the 4x4 block of line 73.
SmallShapes == { <<1, 1>>, <<2, 5>>, <<2, 40>>, <<3, 41>> }
BlockShape  == <<BlockRowHi, BlockColHi>>
ACSWidths   == { 0, 3, 24, 48 }

DataSets ==
    [shape : SmallShapes, R : 1..MaxR, num_ACS : ACSWidths, n : 0..MaxSlices]
    \cup
    [shape : {BlockShape}, R : {MaxR}, num_ACS : {24}, n : {1}]

\* The 320 x 368 geometry of the knee data, of which the 4x4 block is the
\* centre, with every R and with no band, a narrow band and the default
\* band of 24 columns.
KneeShape    == <<320, 368>>
KneeDataSets == [shape : {KneeShape}, R : 1..MaxR, num_ACS : {0, 2, 24}, n : {1}]

\* Contents of one slice, by name: the data themselves play no part in
\* the mask logic, only which slice and which derivation they come from.
KSlice(i)          == [of |-> "kspace", slice |-> i, normalised |-> TRUE]
SSlice(i)          == [of |-> "sens_map", slice |-> i]
DecodeOf(k, msk, sens) ==
    [of |-> "decode", kspace |-> k, masked_by |-> msk, S |-> sens]

Nx == kspace.shape[2]
Ny == kspace.shape[3]

\* References to tensor objects are numbers; self.mask is the first object
MaskRef == 0

\* self.rand_mask before the first __getitem__: no object
NoRef == -1

InitDataset(d) ==
    /\ kspace   = [shape |-> <<d.n, d.shape[1], d.shape[2]>>,
                   slice |-> [i \in 0..(d.n - 1) |-> KSlice(i)]]
    /\ n_slices = d.n
    /\ sens_map = [i \in 0..(d.n - 1) |-> SSlice(i)]
    /\ num_ACS  = d.num_ACS
    /\ R        = d.R
    /\ mask     = MaskRef
    /\ heap     = [i \in {MaskRef} |->
                     InitMask(d.shape[1], d.shape[2], d.R, d.num_ACS)]
    /\ x0       = [i \in 0..(d.n - 1) |-> DecodeOf(KSlice(i), "self.mask", SSlice(i))]
    /\ xref     = [i \in 0..(d.n - 1) |-> DecodeOf(KSlice(i), "None", SSlice(i))]
    /\ gauss_kernel = None
    /\ random       = None
    /\ rand_mask    = NoRef
    /\ index = None
    /\ ret   = NoResult
    /\ batch = <<>>
    /\ calls = 0

\* Variant of NewRef: the thresholded field is stored into the tensor that
\* self.rand_mask already holds, when there is one
ReuseRef(h, cur) ==
    IF cur # NoRef THEN cur
    ELSE CHOOSE i \in 0..(Cardinality(DOMAIN h)) : i \notin DOMAIN h

\* gauss_gen(Nx, Ny, sigma=0.5) for every geometry of the model: gauss_gen
\* is a pure function, so each kernel is computed once
AllShapes == SmallShapes \cup {BlockShape, KneeShape}

GaussKernels ==
    Tabulated([sh \in AllShapes |-> gauss_gen(sh[1], sh[2], SigmaMilli)])

\* The tensor object created by line 72: a reference no live object has
NewRef(h, cur) == CHOOSE i \in 0..(Cardinality(DOMAIN h)) : i \notin DOMAIN h

\* Variant of GetItemBody: line 72 binds the new tensor to self.mask and
\* lines 73-77 write into self.mask
GetItemBodyOnMask(self, h, seed) ==
    LET nx  == self.kspace.shape[2]
        ny  == self.kspace.shape[3]
        gk  == GaussKernels[<<nx, ny>>]
        rnd == Rand(seed, nx, ny)
        ref == NewRef(h, self.mask)
        h1  == [i \in (DOMAIN h) \cup {ref} |->
                  IF i = ref THEN ThresholdField(rnd, gk, nx, ny) ELSE h[i]]
        s1  == [self EXCEPT !.gauss_kernel = gk, !.random = rnd,
                            !.mask = ref, !.rand_mask = ref]
        h2  == [h1 EXCEPT ![s1.mask] =
                  RandMaskWrites(h1[s1.mask], nx, ny, self.R, self.num_ACS)]
    IN  [self |-> s1, heap |-> h2]

\* Lines 69-77 of __getitem__ on the attributes of self and the heap
GetItemBody(self, h, seed) ==
    LET nx  == self.kspace.shape[2]
        ny  == self.kspace.shape[3]
        gk  == GaussKernels[<<nx, ny>>]
        rnd == Rand(seed, nx, ny)
        ref == NewRef(h, self.rand_mask)
        h1  == [i \in (DOMAIN h) \cup {ref} |->
                  IF i = ref THEN ThresholdField(rnd, gk, nx, ny) ELSE h[i]]
        s1  == [self EXCEPT !.gauss_kernel = gk, !.random = rnd,
                            !.rand_mask = ref]
        h2  == [h1 EXCEPT ![s1.rand_mask] =
                  RandMaskWrites(h1[s1.rand_mask], nx, ny, self.R, self.num_ACS)]
    IN  [self |-> s1, heap |-> h2]

Self ==
    [kspace |-> kspace, sens_map |-> sens_map, n_slices |-> n_slices,
     num_ACS |-> num_ACS, R |-> R, mask |-> mask, x0 |-> x0, xref |-> xref,
     gauss_kernel |-> gauss_kernel, random |-> random, rand_mask |-> rand_mask]

\* Objects no reference reaches any more are freed
Live(h, refs) == [i \in (DOMAIN h) \cap refs |-> h[i]]

\* dataset[idx], with the random source in state seed
GetItem(idx, seed) ==
    /\ calls < MaxCalls
    /\ \E out \in {GetItemBody(Self, heap, seed)} :
       LET s   == out.self
           n   == s.kspace.shape[1]
           ok  == IndexOk(idx, n)
           i   == IndexPos(idx, n)
           b   == IF ok THEN Append(batch, s.rand_mask) ELSE batch
       IN  /\ kspace' = s.kspace
           /\ sens_map' = s.sens_map
           /\ n_slices' = s.n_slices
           /\ num_ACS' = s.num_ACS
           /\ R' = s.R
           /\ mask' = s.mask
           /\ x0' = s.x0
           /\ xref' = s.xref
           /\ gauss_kernel' = s.gauss_kernel
           /\ random' = s.random
           /\ rand_mask' = s.rand_mask
           /\ ret' = IF ok
                     THEN [kind |-> "ok", x0 |-> s.x0[i], xref |-> s.xref[i],
                           kspace |-> s.kspace.slice[i],
                           sens_map |-> s.sens_map[i],
                           mask |-> s.rand_mask, index |-> idx]
                     ELSE [kind |-> "IndexError"]
           /\ batch' = b
           /\ heap' = Live(out.heap,
                           {s.mask, s.rand_mask} \cup {b[j] : j \in DOMAIN b})
    /\ index' = idx
    /\ calls' = calls + 1

-----------------------------------------------------------------------------
(* The parts of the state a specification does not exercise *)

NoDataset ==
    /\ kspace = None /\ sens_map = None /\ n_slices = None /\ num_ACS = None
    /\ R = None /\ mask = None /\ x0 = None /\ xref = None
    /\ gauss_kernel = None /\ random = None /\ rand_mask = NoRef
    /\ heap = None /\ index = None /\ ret = NoResult /\ batch = None /\ calls = None

NoOperators ==
    /\ x = None /\ S = None /\ m = None /\ y = None /\ back = None
    /\ xr = None /\ pc = None

NoNmse == nm_x = None /\ nm_xref = None /\ nm_out = [kind |-> "None"]

NoLoaders == params = None /\ loaders = None /\ datasets = None

-----------------------------------------------------------------------------
(* Specification Spec: a KneeDataset is constructed, then accessed *)

Init ==
    /\ \E d \in DataSets : InitDataset(d)
    /\ NoOperators /\ NoNmse /\ NoLoaders

Access ==
    \E idx \in (-(n_slices + 1))..n_slices, seed \in Seeds :
        /\ GetItem(idx, seed)
        /\ UNCHANGED <<opvars, nmvars, plvars>>

Next == Access

Spec == Init /\ [][Next]_vars

-----------------------------------------------------------------------------
(* Specification SpecKnee: a KneeDataset of the knee geometry is           *)
(* constructed, then accessed once                                         *)

InitKnee ==
    /\ \E d \in KneeDataSets : InitDataset(d)
    /\ NoOperators /\ NoNmse /\ NoLoaders

FirstAccess == calls = 0 /\ Access

NextKnee == FirstAccess

SpecKnee == InitKnee /\ [][NextKnee]_vars

-----------------------------------------------------------------------------
(* Specification SpecOperators: fft2 then ifft2, or encode then decode,    *)
(* on one image and one sensitivity map                                    *)

Shape3 == (1..MaxAxis) \X (1..MaxAxis) \X (1..MaxCoils)

\* Images: one non-zero pixel, a constant image, a ramp
Images(nx, ny) ==
    { [r \in 0..(nx - 1) |-> [c \in 0..(ny - 1) |->
          IF <<r, c>> = q THEN v ELSE Zero]] :
        q \in (0..(nx - 1)) \X (0..(ny - 1)), v \in {One, <<2, 1>>} }
    \cup
    { [r \in 0..(nx - 1) |-> [c \in 0..(ny - 1) |-> One]],
      [r \in 0..(nx - 1) |-> [c \in 0..(ny - 1) |-> Re(1 + r + 2 * c)]] }

\* Sensitivity maps.  "phase": coil 0 has modulus 1 everywhere, the other
\* coils are 0.  "split": pixel (r, c) is seen by coil (r + c) % Nc alone,
\* with modulus 1.  "flat": every coil is 1 everywhere.
SensMap(kind, nx, ny, nc) ==
    LET E(r, c, k) ==
          CASE kind = "phase" -> IF k = 0 THEN CPow(Unit, r + 2 * c) ELSE Zero
            [] kind = "split" -> IF k = (r + c) % nc THEN CPow(Unit, 3 * r + c) ELSE Zero
            [] kind = "flat"  -> One
    IN  Tensor(nx, ny, nc, E)

SensKinds == {"phase", "split", "flat"}

\* sum over coils of |S|^2 = 1 at every pixel
Orthonormal(sens) ==
    \A r \in DOMAIN sens : \A c \in DOMAIN sens[r] :
        CSum([k \in 0..(Coils(sens) - 1) |-> AbsSq(sens[r][c][k])], Coils(sens)) = One

\* Sampling masks for encode: None, or every second column
Masks(nx, ny) ==
    { None, [r \in 0..(nx - 1) |-> [c \in 0..(ny - 1) |-> IF c % 2 = 0 THEN 1 ELSE 0]] }

InitOperators ==
    /\ \E sh \in Shape3 :
         /\ x \in Images(sh[1], sh[2])
         /\ \E kind \in SensKinds : S = SensMap(kind, sh[1], sh[2], sh[3])
         /\ m \in Masks(sh[1], sh[2])
    /\ y = None /\ back = None /\ xr = None
    /\ pc = "start"
    /\ NoDataset /\ NoNmse /\ NoLoaders

Fft2Step ==
    /\ pc = "start"
    /\ y' = fft2(CoilImages(x, S))
    /\ pc' = "fft2"
    /\ UNCHANGED <<x, S, m, back, xr, dsvars, nmvars, plvars>>

Ifft2Step ==
    /\ pc = "fft2"
    /\ back' = ifft2(y)
    /\ pc' = "ifft2"
    /\ UNCHANGED <<x, S, m, y, xr, dsvars, nmvars, plvars>>

EncodeStep ==
    /\ pc = "start"
    /\ y' = encode(x, S, m)
    /\ pc' = "encode"
    /\ UNCHANGED <<x, S, m, back, xr, dsvars, nmvars, plvars>>

DecodeStep ==
    /\ pc = "encode"
    /\ xr' = decode(y, S)
    /\ pc' = "decode"
    /\ UNCHANGED <<x, S, m, y, back, dsvars, nmvars, plvars>>

NextOperators == Fft2Step \/ Ifft2Step \/ EncodeStep \/ DecodeStep

SpecOperators == InitOperators /\ [][NextOperators]_vars

-----------------------------------------------------------------------------
(* Specification SpecNmse: one call of nmse on two arrays of equal length  *)

RECURSIVE Gcd(_, _)
Gcd(a, b) == IF b = 0 THEN a ELSE Gcd(b, a % b)

\* np.sum(f ** 2) for a real array f
RECURSIVE SumSq(_, _)
SumSq(f, n) == IF n = 0 THEN 0 ELSE SumSq(f, n - 1) + f[n - 1] * f[n - 1]

\* a / b in floating point, for a >= 0 and b >= 0: 0/0 is nan and a/0 is
\* inf (numpy warns and continues), otherwise the quotient, here as a
\* fraction in lowest terms
Divide(a, b) ==
    IF b = 0
    THEN IF a = 0 THEN [kind |-> "nan"] ELSE [kind |-> "inf"]
    ELSE [kind |-> "float", num |-> a \div Gcd(a, b), den |-> b \div Gcd(a, b)]

nmse(ax, aref) ==
    LET n    == Cardinality(DOMAIN ax)
        diff == [i \in 0..(n - 1) |-> ax[i] - aref[i]]
    IN  Divide(SumSq(diff, n), SumSq(aref, n))

Arrays(n) == [0..(n - 1) -> -1..1]

InitNmse ==
    /\ \E n \in 1..MaxLen : nm_x \in Arrays(n) /\ nm_xref \in Arrays(n)
    /\ nm_out = [kind |-> "None"]
    /\ NoDataset /\ NoOperators /\ NoLoaders

NmseCall ==
    /\ nm_out.kind = "None"
    /\ nm_out' = nmse(nm_x, nm_xref)
    /\ UNCHANGED <<nm_x, nm_xref, dsvars, opvars, plvars>>

NextNmse == NmseCall

SpecNmse == InitNmse /\ [][NextNmse]_vars

-----------------------------------------------------------------------------
(* Specification SpecLoaders: one call of prepare_train_loaders on a       *)
(* dataset of n_slices slices                                              *)

\* Variant of TrainNum: the product rounded up
TrainNumCeil(n) == (n * 8 + 9) \div 10

\* int(dataset.n_slices * 0.8).  The double nearest to 0.8 lies above 4/5
\* by less than 5e-17, so for every n below 2^50 the rounded product is at
\* least 4n/5 and below the next integer: its integer part is 4n // 5.
TrainNum(n) == (n * 8) \div 10

ValidNum(n) == n - TrainNum(n)

\* torch.randperm(n): every order of 0..n-1, as sequences
RECURSIVE Perms(_)
Perms(T) ==
    IF T = {} THEN { << >> }
    ELSE UNION { { <<e>> \o q : q \in Perms(T \ {e}) } : e \in T }

\* torch.utils.data.random_split(dataset, [a, b], generator): the Subsets
\* hold the first a and the next b indices of a random permutation
random_split(n, a, b, perm) ==
    IF a + b # n
    THEN [kind |-> "ValueError"]
    ELSE [kind |-> "ok",
          first  |-> SubSeq(perm, 1, a),
          second |-> SubSeq(perm, a + 1, a + b)]

Loader(ds, prm, drop) ==
    [dataset |-> ds, batch_size |-> prm.batch_size, shuffle |-> TRUE,
     drop_last |-> drop, num_workers |-> prm.num_workers]

InitLoaders ==
    /\ n_slices \in 0..MaxTotal
    /\ params \in [batch_size : 1..MaxBatch, num_workers : {0}]
    /\ loaders = None
    /\ datasets = None
    /\ kspace = None /\ sens_map = None /\ num_ACS = None
    /\ R = None /\ mask = None /\ x0 = None /\ xref = None
    /\ gauss_kernel = None /\ random = None /\ rand_mask = NoRef
    /\ heap = None /\ index = None /\ ret = NoResult /\ batch = None /\ calls = None
    /\ NoOperators /\ NoNmse

\* prepare_train_loaders(dataset, params, g), where g decides the permutation
\* random_split draws
PrepareTrainLoaders ==
    /\ datasets = None
    /\ \E perm \in Perms(0..(n_slices - 1)) :
       LET train_num == TrainNum(n_slices)
           valid_num == ValidNum(n_slices)
           split     == random_split(n_slices, train_num, valid_num, perm)
       IN  /\ split.kind = "ok"
           /\ datasets' = [train_dataset |-> split.first,
                           valid_dataset |-> split.second]
           /\ loaders' = [train_loader |-> Loader("train_dataset", params, TRUE),
                          valid_loader |-> Loader("valid_dataset", params, TRUE),
                          full_loader  |-> Loader("dataset", params, FALSE)]
    /\ UNCHANGED <<params, dsvars, opvars, nmvars>>

NextLoaders == PrepareTrainLoaders

SpecLoaders == InitLoaders /\ [][NextLoaders]_vars

-----------------------------------------------------------------------------
(* Properties of the KneeDataset masks (specification Spec) *)

\* The tensor self.rand_mask refers to (after at least one access)
RandMask == heap[rand_mask]

\* The tensor self.mask refers to
FixedMask == heap[mask]

RowsOf == 0..(Nx - 1)
ColsOf == 0..(Ny - 1)

\* Column c lies in the centred band (Ny-num_ACS)//2 <= c < (Ny+num_ACS)//2
InBand(c) == (Ny - num_ACS) \div 2 <= c /\ c < (Ny + num_ACS) \div 2

\* Column c is a stride-R column or one of the first 18 or last 18 columns
StrideOrEdge(c) == c % R = 0 \/ c < EdgeCols \/ c >= Ny - EdgeCols

\* The thresholded random field of the latest access, before the writes
Thresholded(r, c) == random[r][c] * gauss_kernel[r][c] > Threshold * Milli

\* The rows and columns of the 4x4 block that exist in the mask
BlockRows == { r \in RowsOf : BlockRowLo <= r /\ r < BlockRowHi }
BlockCols == { c \in ColsOf : BlockColLo <= c /\ c < BlockColHi }

\* C1: with R >= 1 and 0 <= num_ACS <= Ny, after any number of accesses
\* with any random draw, the latest randomized mask is 1 in every row at
\* every stride-R column, at the first 18 and last 18 columns and on the
\* centred band, and it is 1 wherever the fixed mask is 1.
C1_RandMaskRetains ==
    (calls > 0 /\ num_ACS <= Ny) =>
        \A r \in RowsOf : \A c \in ColsOf :
            /\ (StrideOrEdge(c) \/ InBand(c)) => RandMask[r][c] = 1
            /\ FixedMask[r][c] = 1 => RandMask[r][c] = 1

\* C1 witness: an access has returned a mask that is not all ones, whose
\* band is not empty, and in which a stride column outside the edges and
\* the band is 1 although the thresholded field was 0 there.
C1_Witness ==
    /\ calls > 0 /\ ret.kind = "ok"
    /\ R > 1 /\ 0 < num_ACS /\ num_ACS <= Ny
    /\ \E r \in RowsOf : \E c \in ColsOf : RandMask[r][c] = 0
    /\ \E r \in RowsOf : \E c \in ColsOf :
          /\ c % R = 0 /\ c >= EdgeCols /\ c < Ny - EdgeCols /\ ~InBand(c)
          /\ ~Thresholded(r, c)
          /\ RandMask[r][c] = 1

\* C3: the fixed mask built by __init__ is 1, in every row, at every
\* existing column c of the centred band (Ny-num_ACS)//2 <= c <
\* (Ny+num_ACS)//2, for every Ny >= 1, R >= 1 and num_ACS >= 0, widths
\* above Ny included; for num_ACS <= Ny the band has num_ACS columns.
C3_CentreBandIsOne ==
    /\ \A r \in RowsOf : \A c \in ColsOf : InBand(c) => FixedMask[r][c] = 1
    /\ num_ACS <= Ny => Cardinality({ c \in ColsOf : InBand(c) }) = num_ACS

\* C6 as stated: __getitem__(index) returns a tuple exactly when
\* 0 <= index < n, and raises an index error for every other index.
C6_OnlyZeroToN ==
    calls > 0 =>
        /\ ret.kind = "ok" <=> (0 <= index /\ index < n_slices)
        /\ ret.kind # "ok" => ret.kind = "IndexError"

\* C6 amended: __getitem__(index) returns a tuple exactly when
\* -n <= index < n, the tuple of slice index for index >= 0 and of slice
\* index + n for index < 0, carrying the index as passed; for every other
\* index it raises an index error.
C6_IndexRange ==
    calls > 0 =>
        /\ ret.kind = "ok" <=> (-n_slices <= index /\ index < n_slices)
        /\ ret.kind # "ok" => ret.kind = "IndexError"
        /\ ret.kind = "ok" =>
              LET i == IF index < 0 THEN index + n_slices ELSE index
              IN  /\ ret.index = index
                  /\ ret.x0 = x0[i] /\ ret.xref = xref[i]
                  /\ ret.kspace = kspace.slice[i] /\ ret.sens_map = sens_map[i]
                  /\ ret.mask = rand_mask

\* C6 witness: a negative index has returned a tuple, and the dataset has
\* more than one slice.
C6_Witness ==
    /\ calls > 0 /\ ret.kind = "ok" /\ index < 0 /\ n_slices > 1

\* C8 as stated: in the randomized mask all 16 entries of the block rows
\* 158..161, columns 182..185 are 0, for every draw, R and num_ACS.
C8_BlockIsZero ==
    calls > 0 =>
        \A r \in BlockRows : \A c \in BlockCols : RandMask[r][c] = 0

\* C8 amended: in the randomized mask an entry of the block rows 158..161,
\* columns 182..185 is 0 exactly when its column is none of the columns
\* the later writes set (stride-R columns, first and last 18 columns, the
\* band slice); at those columns the entry is 1.
C8_BlockZeroUnlessRewritten ==
    calls > 0 =>
        \A r \in BlockRows : \A c \in BlockCols :
            RandMask[r][c] =
                IF StrideOrEdge(c) \/ InSlice(c, BandSlice(Ny, num_ACS), Ny)
                THEN 1 ELSE 0

\* C8 witness: the block exists, an entry of it where the thresholded
\* field was 1 is 0 in the mask, and another entry of it is 1.
C8_Witness ==
    /\ calls > 0
    /\ \E r \in BlockRows : \E c \in BlockCols :
          Thresholded(r, c) /\ RandMask[r][c] = 0
    /\ \E r \in BlockRows : \E c \in BlockCols : RandMask[r][c] = 1

\* C9: every access, returning or raising, leaves x0, xref, kspace,
\* sens_map, the fixed mask (the object and its entries), R, num_ACS and
\* n_slices as they were; an access of the index of the previous access
\* returns the same x0, xref, kspace and sensitivity values.
C9_Frame ==
    [][ /\ x0' = x0 /\ xref' = xref /\ kspace' = kspace
        /\ sens_map' = sens_map
        /\ mask' = mask /\ heap'[mask'] = heap[mask]
        /\ R' = R /\ num_ACS' = num_ACS /\ n_slices' = n_slices
        /\ (ret.kind = "ok" /\ ret'.kind = "ok" /\ ret'.index = ret.index) =>
              /\ ret'.x0 = ret.x0 /\ ret'.xref = ret.xref
              /\ ret'.kspace = ret.kspace /\ ret'.sens_map = ret.sens_map
      ]_vars

\* C9 witness: two accesses have been made, one returned and the latest
\* raised, the random field and the randomized mask exist, and the fixed
\* mask is not all ones.
C9_Witness ==
    /\ calls >= 2 /\ Len(batch) = 1 /\ ret.kind = "IndexError"
    /\ rand_mask # NoRef /\ random # None
    /\ \E r \in RowsOf : \E c \in ColsOf : FixedMask[r][c] = 0

\* C10: an access returns a mask object that did not exist before, and
\* no access changes the entries of a mask returned earlier.
C10_FreshMask ==
    [][ /\ ret'.kind = "ok" => ret'.mask \notin DOMAIN heap
        /\ \A j \in DOMAIN batch :
              /\ batch'[j] = batch[j]
              /\ heap'[batch[j]] = heap[batch[j]]
      ]_vars

\* C10 witness: two masks with different entries have been returned and
\* both are held by the caller.
C10_Witness ==
    /\ Len(batch) = 2 /\ batch[1] # batch[2]
    /\ heap[batch[1]] # heap[batch[2]]

-----------------------------------------------------------------------------
(* Properties of the Fourier operators (specification SpecOperators) *)

\* C2: for every tensor t of every spatial size, odd axis lengths
\* included, ifft2(fft2(t)) = t.
C2_Ifft2InvertsFft2 ==
    pc = "ifft2" => back = CoilImages(x, S)

\* C7: for every image x and every sensitivity map S with sum over coils
\* of |S|^2 = 1 at every pixel, of every spatial size, odd axis lengths
\* included, decode(encode(x, S, None), S) = x.
C7_DecodeInvertsEncode ==
    (pc = "decode" /\ m = None /\ Orthonormal(S)) => xr = x

-----------------------------------------------------------------------------
(* Property of nmse (specification SpecNmse) *)

\* C4: nmse(x, x) is exactly 0 for every x, the all-zero x included.
C4_NmseOfSelfIsZero ==
    (nm_out.kind # "None" /\ nm_x = nm_xref) =>
        nm_out = [kind |-> "float", num |-> 0, den |-> 1]

-----------------------------------------------------------------------------
(* Property of prepare_train_loaders (specification SpecLoaders) *)

\* The set of entries of a sequence
Range(q) == { q[j] : j \in DOMAIN q }

====
